---- MODULE Spec2Model ----
(***************************************************************************)
(* Writer-preference reader-writer lock (my_rwlock.c) driven by a pool of  *)
(* worker threads.  The lock is a mutex, two condition variables and four  *)
(* counters; every worker repeatedly acquires the lock in read or write    *)
(* mode, holds it, and releases it.  Each statement of the lock functions  *)
(* that touches the mutex or a condition variable is one step of the       *)
(* calling thread.                                                         *)
(*                                                                         *)
(* The second half is the linked-list workload (test_pthread_rwlock.c):    *)
(* main reads its input, fills a sorted singly linked list, starts         *)
(* thread_count workers that run Member, Insert and Delete under a         *)
(* reader-writer lock, joins them and reports the operation counters.      *)
(*                                                                         *)
(* The last part is the Mandelbrot sampler (main of firstTask.c): a team   *)
(* of OpenMP threads fills points[] at indices handed out by an atomic     *)
(* capture of a shared counter.                                            *)
(***************************************************************************)
EXTENDS Integers, FiniteSets, Sequences, TLC

(* ---------------------------------------------------------------- bounds *)
NumThreads == 3
OpsPerThread == 1
MaxFaults == 1
MaxKey == 2
MaxTotalOps == 3
Scale == 3
MaxPoints == 2

\* the workers, which always pass &rwlock, and the thread that owns the lock
Threads == 1..NumThreads
Owner == 0
NoThread == 0 - 1

(* ------------------------------------------------------------- constants *)
EINVAL == 22
EAGAIN == 11
ENOMEM == 12
NoRet == 0 - 1

\* failure codes a pthread primitive may report
PrimErr == {EAGAIN, ENOMEM}
\* contents of the counters before my_rwlock_init has written them
Garbage == {0, 1}
\* the handle argument of the lock functions
Handles == {"NULL", "rwlock"}

VARIABLES
    active_readers,   \* my_rwlock_t.active_readers
    waiting_readers,  \* my_rwlock_t.waiting_readers
    waiting_writers,  \* my_rwlock_t.waiting_writers
    writer_active,    \* my_rwlock_t.writer_active (0 or 1)
    mutex,            \* owner of my_rwlock_t.mutex, NoThread when unlocked
    readers_cv,       \* threads parked in pthread_cond_wait(&readers_cv)
    writers_cv,       \* threads parked in pthread_cond_wait(&writers_cv)
    inited,           \* which of the three primitives are initialised
    mpc,              \* position of the thread that owns the lock object
    mret,             \* last value a lock function returned to that thread
    pc,               \* position of each worker
    held,             \* what each worker holds: "none", "read" or "write"
    ret,              \* last value a lock function returned to each worker
    i,                \* completed acquire/release pairs of each worker
    primFail,         \* failure code reported by a primitive in the current call
    faults,           \* number of primitive failures so far
    harness,          \* the program that runs: "none" (the lock alone),
                      \* "pthread", "custom" or "mandelbrot"
    hpc,              \* position of main
    argc,             \* main's argc
    exit_status,      \* exit status of the process, NoRet while it runs
    usage,            \* TRUE once the usage line has been written to stderr
    thread_count,     \* global thread_count
    total_ops,        \* global total_ops
    search_percent,   \* global search_percent, in units of 1/Scale
    insert_percent,   \* global insert_percent, in units of 1/Scale
    inserts_in_main,  \* main's inserts_in_main
    main_i,           \* main's i
    attempts,         \* main's attempts
    head,             \* global head
    data,             \* list_node_s.data of each node
    next,             \* list_node_s.next of each node
    alloc,            \* nodes handed out by malloc and not yet freed
    wpc,              \* position of each worker in Thread_work
    op,               \* the branch of Thread_work the worker is in
    val,              \* Thread_work's val
    curr,             \* curr of the worker's Insert or Delete
    pred,             \* pred of the worker's Insert or Delete
    rv,               \* value returned by the worker's last list operation
    my_member_count,  \* Thread_work's my_member_count
    my_insert_count,  \* Thread_work's my_insert_count
    my_delete_count,  \* Thread_work's my_delete_count
    member_count,     \* global member_count
    insert_count,     \* global insert_count
    delete_count,     \* global delete_count
    count_mutex,      \* owner of count_mutex, NoThread when unlocked
    loaded,           \* the counters a worker has read for its += statements
    ref,              \* the same operations applied without any lock:
                      \* <<list, returned value, searches, inserts, deletes>>
    nthreads,         \* firstTask.c main's nthreads
    npoints,          \* firstTask.c main's npoints
    count,            \* firstTask.c main's count, shared by the team
    opc,              \* position of each thread of the OpenMP team
    current_index,    \* current_index of each thread of the team
    points            \* how often each cell of points[] has been written

lockVars == <<active_readers, waiting_readers, waiting_writers, writer_active>>
primVars == <<mutex, readers_cv, writers_cv, inited>>
mainVars == <<mpc, mret>>
thrVars == <<pc, held, ret, i, primFail, faults>>
\* the state of the list workload
cfgVars == <<harness, argc, thread_count, total_ops, search_percent,
             insert_percent, inserts_in_main>>
listVars == <<head, data, next, alloc>>
workVars == <<wpc, op, val, curr, pred, rv,
              my_member_count, my_insert_count, my_delete_count>>
countVars == <<member_count, insert_count, delete_count, count_mutex, loaded>>
procVars == <<hpc, exit_status, usage, main_i, attempts>>
\* the state of the Mandelbrot sampler of firstTask.c
mandelVars == <<nthreads, npoints, count, opc, current_index, points>>
harnessVars == <<cfgVars, listVars, workVars, countVars, procVars, ref,
                 mandelVars>>

vars == <<active_readers, waiting_readers, waiting_writers, writer_active,
          mutex, readers_cv, writers_cv, inited, mpc, mret,
          pc, held, ret, i, primFail, faults, harnessVars>>

\* the null pointer, and the addresses malloc can return
NULL == 0
Addr == 1..(MaxKey + 1)
\* the keys: my_rand(&seed) % MAX_KEY
Keys == 1..MaxKey

\* the process at the entry of main: the globals hold their initialisers,
\* no node is allocated, no worker exists
ProgramStart(kind, args) ==
    /\ harness = kind
    /\ hpc = "start"
    /\ argc \in args
    /\ exit_status = NoRet
    /\ usage = FALSE
    /\ thread_count = 0
    /\ total_ops = 0
    /\ search_percent = 0
    /\ insert_percent = 0
    /\ inserts_in_main = 0
    /\ main_i = 0
    /\ attempts = 0
    /\ head = NULL
    /\ data = [a \in Addr |-> 0]
    /\ next = [a \in Addr |-> NULL]
    /\ alloc = {}
    /\ wpc = [t \in Threads |-> "off"]
    /\ op = [t \in Threads |-> "none"]
    /\ val = [t \in Threads |-> 0]
    /\ curr = [t \in Threads |-> NULL]
    /\ pred = [t \in Threads |-> NULL]
    /\ rv = [t \in Threads |-> NoRet]
    /\ my_member_count = [t \in Threads |-> 0]
    /\ my_insert_count = [t \in Threads |-> 0]
    /\ my_delete_count = [t \in Threads |-> 0]
    /\ member_count = 0
    /\ insert_count = 0
    /\ delete_count = 0
    /\ count_mutex = NoThread
    /\ loaded = [t \in Threads |-> <<>>]
    /\ ref = <<<<>>, NoRet, 0, 0, 0>>
    /\ nthreads = 0
    /\ npoints = 0
    /\ count = 0
    /\ opc = <<>>
    /\ current_index = <<>>
    /\ points = <<>>

\* the lock object before my_rwlock_init, its counters holding one of G
LockStart(G) ==
    /\ active_readers \in G
    /\ waiting_readers \in G
    /\ waiting_writers \in G
    /\ writer_active \in G
    /\ mutex = NoThread
    /\ readers_cv = {}
    /\ writers_cv = {}
    /\ inited = {}
    /\ mpc = "init"
    /\ mret = NoRet
    /\ pc = [t \in Threads |-> "idle"]
    /\ held = [t \in Threads |-> "none"]
    /\ ret = [t \in Threads |-> NoRet]
    /\ i = [t \in Threads |-> 0]
    /\ primFail = [t \in Threads |-> 0]
    /\ faults = 0

\* the lock alone, in memory that my_rwlock_init has not yet written,
\* driven by workers that only acquire and release
Init ==
    /\ LockStart(Garbage)
    /\ ProgramStart("none", {2})

(* ------------------------------------------------------- my_rwlock_init *)
\* mutant: waiting_writers is not zeroed
my_rwlock_init_KeepsWaiting(h, rcm, rcr, rcw) ==
    /\ mpc = "init"
    /\ IF h = "NULL"
       THEN /\ mret' = EINVAL
            /\ UNCHANGED <<mpc, lockVars, primVars>>
       ELSE IF rcm # 0
       THEN /\ mret' = rcm
            /\ mpc' = "init_failed"
            /\ UNCHANGED <<lockVars, primVars>>
       ELSE IF rcr # 0
       THEN /\ mret' = rcr
            /\ mpc' = "init_failed"
            /\ inited' = {}
            /\ UNCHANGED <<lockVars, mutex, readers_cv, writers_cv>>
       ELSE IF rcw # 0
       THEN /\ mret' = rcw
            /\ mpc' = "init_failed"
            /\ inited' = {}
            /\ UNCHANGED <<lockVars, mutex, readers_cv, writers_cv>>
       ELSE /\ inited' = {"mutex", "readers_cv", "writers_cv"}
            /\ active_readers' = 0
            /\ waiting_readers' = 0
            /\ UNCHANGED waiting_writers
            /\ writer_active' = 0
            /\ mret' = 0
            /\ mpc' = "run"
            /\ UNCHANGED <<mutex, readers_cv, writers_cv>>
    /\ UNCHANGED thrVars

\* mutant: when the writers' condition variable cannot be initialised the
\* mutex is not destroyed
my_rwlock_init_LeaksMutex(h, rcm, rcr, rcw) ==
    /\ mpc = "init"
    /\ IF h = "NULL"
       THEN /\ mret' = EINVAL
            /\ UNCHANGED <<mpc, lockVars, primVars>>
       ELSE IF rcm # 0
       THEN /\ mret' = rcm
            /\ mpc' = "init_failed"
            /\ UNCHANGED <<lockVars, primVars>>
       ELSE IF rcr # 0
       THEN /\ mret' = rcr
            /\ mpc' = "init_failed"
            /\ inited' = {}
            /\ UNCHANGED <<lockVars, mutex, readers_cv, writers_cv>>
       ELSE IF rcw # 0
       THEN /\ mret' = rcw
            /\ mpc' = "init_failed"
            /\ inited' = {"mutex"}
            /\ UNCHANGED <<lockVars, mutex, readers_cv, writers_cv>>
       ELSE /\ inited' = {"mutex", "readers_cv", "writers_cv"}
            /\ active_readers' = 0
            /\ waiting_readers' = 0
            /\ waiting_writers' = 0
            /\ writer_active' = 0
            /\ mret' = 0
            /\ mpc' = "run"
            /\ UNCHANGED <<mutex, readers_cv, writers_cv>>
    /\ UNCHANGED thrVars

\* rcm, rcr, rcw: what pthread_mutex_init and the two pthread_cond_init
\* calls report (0 or a failure code)
my_rwlock_init(h, rcm, rcr, rcw) ==
    /\ mpc = "init"
    /\ IF h = "NULL"
       THEN /\ mret' = EINVAL
            /\ UNCHANGED <<mpc, lockVars, primVars>>
       ELSE IF rcm # 0
       THEN /\ mret' = rcm
            /\ mpc' = "init_failed"
            /\ UNCHANGED <<lockVars, primVars>>
       ELSE IF rcr # 0
       THEN /\ mret' = rcr
            /\ mpc' = "init_failed"
            /\ inited' = {}
            /\ UNCHANGED <<lockVars, mutex, readers_cv, writers_cv>>
       ELSE IF rcw # 0
       THEN /\ mret' = rcw
            /\ mpc' = "init_failed"
            /\ inited' = {}
            /\ UNCHANGED <<lockVars, mutex, readers_cv, writers_cv>>
       ELSE /\ inited' = {"mutex", "readers_cv", "writers_cv"}
            /\ active_readers' = 0
            /\ waiting_readers' = 0
            /\ waiting_writers' = 0
            /\ writer_active' = 0
            /\ mret' = 0
            /\ mpc' = "run"
            /\ UNCHANGED <<mutex, readers_cv, writers_cv>>
    /\ UNCHANGED thrVars

(* ---------------------------------------------------- my_rwlock_destroy *)
\* the owner destroys the lock after every worker has finished
my_rwlock_destroy(h) ==
    /\ mpc = "run"
    /\ \A t \in Threads : pc[t] = "idle" /\ i[t] = OpsPerThread
    /\ IF h = "NULL"
       THEN /\ mret' = EINVAL
            /\ UNCHANGED <<mpc, primVars>>
       ELSE /\ inited' = {}
            /\ mret' = 0
            /\ mpc' = "destroyed"
            /\ UNCHANGED <<mutex, readers_cv, writers_cv>>
    /\ UNCHANGED <<lockVars, thrVars>>

(* ------------------------------------------------------ pthread helpers *)
\* In the steps below rc is what the pthread primitive of that step reports:
\* 0, or a failure code.  The lock functions never look at it.

\* pthread_mutex_lock: on success the caller becomes the owner, on failure
\* the mutex is left as it is
pthread_mutex_lock(t, rc) ==
    IF rc = 0
    THEN mutex = NoThread /\ mutex' = t
    ELSE UNCHANGED mutex

\* pthread_mutex_unlock by the owner releases the mutex; by a thread that
\* does not own it (possible only after a failed pthread_mutex_lock) the
\* behaviour is undefined: the mutex is either left alone or released
pthread_mutex_unlock(t, rc) ==
    IF rc # 0 THEN UNCHANGED mutex
    ELSE IF mutex = t THEN mutex' = NoThread
    ELSE mutex' \in {mutex, NoThread}

\* pthread_cond_signal: unblocks one thread parked on the condition
\* variable, if there is one
pthread_cond_signal(cv, cvNew) ==
    IF cv = {} THEN cvNew = cv
    ELSE \E w \in cv : cvNew = cv \ {w}

\* pthread_cond_broadcast: unblocks every thread parked on it
pthread_cond_broadcast(cv, cvNew) ==
    cvNew = {}

\* the failure code, if any, that a primitive has reported during the call
\* thread t is executing
NoteRc(t, rc) ==
    IF rc = 0 THEN UNCHANGED <<primFail, faults>>
    ELSE /\ faults < MaxFaults
         /\ faults' = faults + 1
         /\ primFail' = [primFail EXCEPT ![t] = rc]

(* ----------------------------------------------------- my_rwlock_rdlock *)
\* entry of my_rwlock_rdlock: the null check, then pthread_mutex_lock
rdlock_call(c, h, rc) ==
    /\ mpc = "run"
    /\ IF h = "NULL"
       THEN /\ c = Owner
            /\ rc = 0
            /\ mret' = EINVAL
            /\ UNCHANGED <<mutex, pc, primFail, faults>>
       ELSE /\ c \in Threads
            /\ pc[c] = "idle"
            /\ held[c] = "none"
            /\ pthread_mutex_lock(c, rc)
            /\ pc' = [pc EXCEPT ![c] = "rd_inc"]
            /\ primFail' = [primFail EXCEPT ![c] = rc]
            /\ IF rc = 0 THEN UNCHANGED faults
               ELSE faults < MaxFaults /\ faults' = faults + 1
            /\ UNCHANGED mret
    /\ UNCHANGED <<lockVars, readers_cv, writers_cv, inited, mpc, held, ret, i>>

rdlock_inc(t) ==
    /\ pc[t] = "rd_inc"
    /\ waiting_readers' = waiting_readers + 1
    /\ pc' = [pc EXCEPT ![t] = "rd_test"]
    /\ UNCHANGED <<active_readers, waiting_writers, writer_active, primVars,
                   mainVars, held, ret, i, primFail, faults>>

\* mutant: the reader's loop forgets the active writer
rdlock_must_wait_NoWriter == waiting_writers > 0

\* mutant: the reader's loop forgets the waiting writers (reader preference)
rdlock_must_wait_NoPreference == writer_active # 0

\* the loop condition of my_rwlock_rdlock
rdlock_must_wait == writer_active # 0 \/ waiting_writers > 0

\* the while test: leave the loop, or call pthread_cond_wait, which parks
\* the thread on readers_cv and releases the mutex (a failing
\* pthread_cond_wait returns at once and the loop tests again)
rdlock_test(t, rc) ==
    /\ pc[t] = "rd_test"
    /\ IF ~rdlock_must_wait
       THEN /\ rc = 0
            /\ pc' = [pc EXCEPT ![t] = "rd_admit"]
            /\ UNCHANGED <<mutex, readers_cv>>
       ELSE IF rc = 0
       THEN /\ readers_cv' = readers_cv \cup {t}
            /\ pthread_mutex_unlock(t, 0)
            /\ pc' = [pc EXCEPT ![t] = "rd_wait"]
       ELSE UNCHANGED <<mutex, readers_cv, pc>>
    /\ NoteRc(t, rc)
    /\ UNCHANGED <<lockVars, writers_cv, inited, mainVars, held, ret, i>>

\* mutant: an if instead of the while, the woken reader does not test again
rdlock_wakeup_NoRecheck(t) ==
    /\ pc[t] = "rd_wait"
    /\ t \notin readers_cv
    /\ pthread_mutex_lock(t, 0)
    /\ pc' = [pc EXCEPT ![t] = "rd_admit"]
    /\ UNCHANGED <<lockVars, readers_cv, writers_cv, inited, mainVars,
                   held, ret, i, primFail, faults>>

\* return from pthread_cond_wait: the thread has been unblocked and
\* re-takes the mutex, then tests the loop condition again
rdlock_wakeup(t) ==
    /\ pc[t] = "rd_wait"
    /\ t \notin readers_cv
    /\ pthread_mutex_lock(t, 0)
    /\ pc' = [pc EXCEPT ![t] = "rd_test"]
    /\ UNCHANGED <<lockVars, readers_cv, writers_cv, inited, mainVars,
                   held, ret, i, primFail, faults>>

\* mutant: the admitted reader stays counted in waiting_readers
rdlock_admit_KeepsWaiting(t) ==
    /\ pc[t] = "rd_admit"
    /\ active_readers' = active_readers + 1
    /\ pc' = [pc EXCEPT ![t] = "rd_unlock"]
    /\ UNCHANGED <<waiting_readers, waiting_writers, writer_active, primVars,
                   mainVars, held, ret, i, primFail, faults>>

\* leaving the loop: the reader is no longer waiting, it holds the lock
rdlock_admit(t) ==
    /\ pc[t] = "rd_admit"
    /\ waiting_readers' = waiting_readers - 1
    /\ active_readers' = active_readers + 1
    /\ pc' = [pc EXCEPT ![t] = "rd_unlock"]
    /\ UNCHANGED <<waiting_writers, writer_active, primVars, mainVars,
                   held, ret, i, primFail, faults>>

\* pthread_mutex_unlock and return 0
rdlock_return(t, rc) ==
    /\ pc[t] = "rd_unlock"
    /\ pthread_mutex_unlock(t, rc)
    /\ NoteRc(t, rc)
    /\ ret' = [ret EXCEPT ![t] = 0]
    /\ held' = [held EXCEPT ![t] = "read"]
    /\ pc' = [pc EXCEPT ![t] = "locked"]
    /\ UNCHANGED <<lockVars, readers_cv, writers_cv, inited, mainVars, i>>

(* ----------------------------------------------------- my_rwlock_wrlock *)
\* entry of my_rwlock_wrlock: the null check, then pthread_mutex_lock
wrlock_call(c, h, rc) ==
    /\ mpc = "run"
    /\ IF h = "NULL"
       THEN /\ c = Owner
            /\ rc = 0
            /\ mret' = EINVAL
            /\ UNCHANGED <<mutex, pc, primFail, faults>>
       ELSE /\ c \in Threads
            /\ pc[c] = "idle"
            /\ held[c] = "none"
            /\ pthread_mutex_lock(c, rc)
            /\ pc' = [pc EXCEPT ![c] = "wr_inc"]
            /\ primFail' = [primFail EXCEPT ![c] = rc]
            /\ IF rc = 0 THEN UNCHANGED faults
               ELSE faults < MaxFaults /\ faults' = faults + 1
            /\ UNCHANGED mret
    /\ UNCHANGED <<lockVars, readers_cv, writers_cv, inited, mpc, held, ret, i>>

wrlock_inc(t) ==
    /\ pc[t] = "wr_inc"
    /\ waiting_writers' = waiting_writers + 1
    /\ pc' = [pc EXCEPT ![t] = "wr_test"]
    /\ UNCHANGED <<active_readers, waiting_readers, writer_active, primVars,
                   mainVars, held, ret, i, primFail, faults>>

\* mutant: the writer's loop forgets the active readers
wrlock_must_wait_NoReaders == writer_active # 0

\* mutant: the writer's loop forgets the active writer
wrlock_must_wait_NoWriter == active_readers > 0

\* the loop condition of my_rwlock_wrlock
wrlock_must_wait == active_readers > 0 \/ writer_active # 0

\* the while test: leave the loop, or park on writers_cv
wrlock_test(t, rc) ==
    /\ pc[t] = "wr_test"
    /\ IF ~wrlock_must_wait
       THEN /\ rc = 0
            /\ pc' = [pc EXCEPT ![t] = "wr_admit"]
            /\ UNCHANGED <<mutex, writers_cv>>
       ELSE IF rc = 0
       THEN /\ writers_cv' = writers_cv \cup {t}
            /\ pthread_mutex_unlock(t, 0)
            /\ pc' = [pc EXCEPT ![t] = "wr_wait"]
       ELSE UNCHANGED <<mutex, writers_cv, pc>>
    /\ NoteRc(t, rc)
    /\ UNCHANGED <<lockVars, readers_cv, inited, mainVars, held, ret, i>>

\* mutant: an if instead of the while, the woken writer does not test again
wrlock_wakeup_NoRecheck(t) ==
    /\ pc[t] = "wr_wait"
    /\ t \notin writers_cv
    /\ pthread_mutex_lock(t, 0)
    /\ pc' = [pc EXCEPT ![t] = "wr_admit"]
    /\ UNCHANGED <<lockVars, readers_cv, writers_cv, inited, mainVars,
                   held, ret, i, primFail, faults>>

\* return from pthread_cond_wait in my_rwlock_wrlock
wrlock_wakeup(t) ==
    /\ pc[t] = "wr_wait"
    /\ t \notin writers_cv
    /\ pthread_mutex_lock(t, 0)
    /\ pc' = [pc EXCEPT ![t] = "wr_test"]
    /\ UNCHANGED <<lockVars, readers_cv, writers_cv, inited, mainVars,
                   held, ret, i, primFail, faults>>

\* mutant: the admitted writer does not record itself in writer_active
wrlock_admit_NoFlag(t) ==
    /\ pc[t] = "wr_admit"
    /\ waiting_writers' = waiting_writers - 1
    /\ pc' = [pc EXCEPT ![t] = "wr_unlock"]
    /\ UNCHANGED <<active_readers, waiting_readers, writer_active, primVars,
                   mainVars, held, ret, i, primFail, faults>>

\* leaving the loop: the writer is no longer waiting, it holds the lock
wrlock_admit(t) ==
    /\ pc[t] = "wr_admit"
    /\ waiting_writers' = waiting_writers - 1
    /\ writer_active' = 1
    /\ pc' = [pc EXCEPT ![t] = "wr_unlock"]
    /\ UNCHANGED <<active_readers, waiting_readers, primVars, mainVars,
                   held, ret, i, primFail, faults>>

\* pthread_mutex_unlock and return 0
wrlock_return(t, rc) ==
    /\ pc[t] = "wr_unlock"
    /\ pthread_mutex_unlock(t, rc)
    /\ NoteRc(t, rc)
    /\ ret' = [ret EXCEPT ![t] = 0]
    /\ held' = [held EXCEPT ![t] = "write"]
    /\ pc' = [pc EXCEPT ![t] = "locked"]
    /\ UNCHANGED <<lockVars, readers_cv, writers_cv, inited, mainVars, i>>

(* ----------------------------------------------------- my_rwlock_unlock *)
\* mutant: a null handle is not reported
unlock_call_NullOk(c, h, rc) ==
    /\ mpc = "run"
    /\ IF h = "NULL"
       THEN /\ c = Owner
            /\ rc = 0
            /\ mret' = 0
            /\ UNCHANGED <<mutex, pc, primFail, faults>>
       ELSE /\ c \in Threads
            /\ pc[c] = "locked"
            /\ pthread_mutex_lock(c, rc)
            /\ pc' = [pc EXCEPT ![c] = "un_body"]
            /\ primFail' = [primFail EXCEPT ![c] = rc]
            /\ IF rc = 0 THEN UNCHANGED faults
               ELSE faults < MaxFaults /\ faults' = faults + 1
            /\ UNCHANGED mret
    /\ UNCHANGED <<lockVars, readers_cv, writers_cv, inited, mpc, held, ret, i>>

\* entry of my_rwlock_unlock: the null check, then pthread_mutex_lock
unlock_call(c, h, rc) ==
    /\ mpc = "run"
    /\ IF h = "NULL"
       THEN /\ c = Owner
            /\ rc = 0
            /\ mret' = EINVAL
            /\ UNCHANGED <<mutex, pc, primFail, faults>>
       ELSE /\ c \in Threads
            /\ pc[c] = "locked"
            /\ pthread_mutex_lock(c, rc)
            /\ pc' = [pc EXCEPT ![c] = "un_body"]
            /\ primFail' = [primFail EXCEPT ![c] = rc]
            /\ IF rc = 0 THEN UNCHANGED faults
               ELSE faults < MaxFaults /\ faults' = faults + 1
            /\ UNCHANGED mret
    /\ UNCHANGED <<lockVars, readers_cv, writers_cv, inited, mpc, held, ret, i>>

\* mutant: the readers are woken in preference to a writer
unlock_wake_ReadersFirst ==
    IF waiting_readers > 0
    THEN /\ pthread_cond_broadcast(readers_cv, readers_cv')
         /\ UNCHANGED writers_cv
    ELSE IF waiting_writers > 0
    THEN /\ pthread_cond_signal(writers_cv, writers_cv')
         /\ UNCHANGED readers_cv
    ELSE UNCHANGED <<readers_cv, writers_cv>>

\* the wake-up issued once the lock is free: one writer if any writer is
\* waiting, else every reader if any reader is waiting
unlock_wake ==
    IF waiting_writers > 0
    THEN /\ pthread_cond_signal(writers_cv, writers_cv')
         /\ UNCHANGED readers_cv
    ELSE IF waiting_readers > 0
    THEN /\ pthread_cond_broadcast(readers_cv, readers_cv')
         /\ UNCHANGED writers_cv
    ELSE UNCHANGED <<readers_cv, writers_cv>>

\* mutant: the releasing writer leaves writer_active set
unlock_body_KeepsWriter(t) ==
    /\ pc[t] = "un_body"
    /\ IF writer_active # 0
       THEN /\ UNCHANGED <<active_readers, writer_active>>
            /\ unlock_wake
       ELSE /\ active_readers' = active_readers - 1
            /\ UNCHANGED writer_active
            /\ IF active_readers' = 0
               THEN unlock_wake
               ELSE UNCHANGED <<readers_cv, writers_cv>>
    /\ pc' = [pc EXCEPT ![t] = "un_unlock"]
    /\ UNCHANGED <<waiting_readers, waiting_writers, mutex, inited, mainVars,
                   held, ret, i, primFail, faults>>

\* mutant: the last reader leaves without waking anybody
unlock_body_SilentLastReader(t) ==
    /\ pc[t] = "un_body"
    /\ IF writer_active # 0
       THEN /\ writer_active' = 0
            /\ UNCHANGED active_readers
            /\ unlock_wake
       ELSE /\ active_readers' = active_readers - 1
            /\ UNCHANGED writer_active
            /\ UNCHANGED <<readers_cv, writers_cv>>
    /\ pc' = [pc EXCEPT ![t] = "un_unlock"]
    /\ UNCHANGED <<waiting_readers, waiting_writers, mutex, inited, mainVars,
                   held, ret, i, primFail, faults>>

\* mutant: every reader's release issues the wake-up
unlock_body_WakesEveryRelease(t) ==
    /\ pc[t] = "un_body"
    /\ IF writer_active # 0
       THEN /\ writer_active' = 0
            /\ UNCHANGED active_readers
            /\ unlock_wake
       ELSE /\ active_readers' = active_readers - 1
            /\ UNCHANGED writer_active
            /\ unlock_wake
    /\ pc' = [pc EXCEPT ![t] = "un_unlock"]
    /\ UNCHANGED <<waiting_readers, waiting_writers, mutex, inited, mainVars,
                   held, ret, i, primFail, faults>>

\* the body between pthread_mutex_lock and pthread_mutex_unlock: the role of
\* the caller is read off writer_active
unlock_body(t) ==
    /\ pc[t] = "un_body"
    /\ IF writer_active # 0
       THEN /\ writer_active' = 0
            /\ UNCHANGED active_readers
            /\ unlock_wake
       ELSE /\ active_readers' = active_readers - 1
            /\ UNCHANGED writer_active
            /\ IF active_readers' = 0
               THEN unlock_wake
               ELSE UNCHANGED <<readers_cv, writers_cv>>
    /\ pc' = [pc EXCEPT ![t] = "un_unlock"]
    /\ UNCHANGED <<waiting_readers, waiting_writers, mutex, inited, mainVars,
                   held, ret, i, primFail, faults>>

\* pthread_mutex_unlock and return 0; the worker has completed one
\* acquire/release pair
unlock_return(t, rc) ==
    /\ pc[t] = "un_unlock"
    /\ pthread_mutex_unlock(t, rc)
    /\ NoteRc(t, rc)
    /\ ret' = [ret EXCEPT ![t] = 0]
    /\ held' = [held EXCEPT ![t] = "none"]
    /\ i' = [i EXCEPT ![t] = i[t] + 1]
    /\ pc' = [pc EXCEPT ![t] = "idle"]
    /\ UNCHANGED <<lockVars, readers_cv, writers_cv, inited, mainVars>>

(* ------------------------------------------------------ spurious wakeup *)
\* pthread_cond_wait may return although nobody signalled
spurious_wakeup(t) ==
    /\ t \in readers_cv \cup writers_cv
    /\ readers_cv' = readers_cv \ {t}
    /\ writers_cv' = writers_cv \ {t}
    /\ UNCHANGED <<lockVars, mutex, inited, mainVars, thrVars>>

(* ---------------------------------------------------------------- steps *)
MainStep ==
    \/ \E h \in Handles, rcm, rcr, rcw \in PrimErr \cup {0} :
          my_rwlock_init(h, rcm, rcr, rcw)
    \/ \E h \in Handles : my_rwlock_destroy(h)

\* the owner passes a null handle to the three locking functions
NullCall ==
    \/ rdlock_call(Owner, "NULL", 0)
    \/ wrlock_call(Owner, "NULL", 0)
    \/ unlock_call(Owner, "NULL", 0)

\* a worker makes OpsPerThread acquisitions
MayCall(t) == i[t] < OpsPerThread

\* steps that take the internal mutex
Acquire(t) ==
    \/ MayCall(t) /\ rdlock_call(t, "rwlock", 0)
    \/ MayCall(t) /\ wrlock_call(t, "rwlock", 0)
    \/ unlock_call(t, "rwlock", 0)
    \/ rdlock_wakeup(t)
    \/ wrlock_wakeup(t)

\* steps of a thread that is running inside a lock function
Progress(t) ==
    \/ rdlock_inc(t)
    \/ rdlock_test(t, 0)
    \/ rdlock_admit(t)
    \/ rdlock_return(t, 0)
    \/ wrlock_inc(t)
    \/ wrlock_test(t, 0)
    \/ wrlock_admit(t)
    \/ wrlock_return(t, 0)
    \/ unlock_body(t)
    \/ unlock_return(t, 0)

\* steps in which a pthread primitive reports a failure.  The lock functions
\* go on regardless: after a failed pthread_mutex_lock the thread runs the
\* statements that follow without owning the mutex (each statement is still
\* one step), and a failed pthread_cond_wait is called again by the loop.
Fault(t) ==
    \E rc \in PrimErr :
        \/ MayCall(t) /\ rdlock_call(t, "rwlock", rc)
        \/ MayCall(t) /\ wrlock_call(t, "rwlock", rc)
        \/ unlock_call(t, "rwlock", rc)
        \/ rdlock_test(t, rc)
        \/ wrlock_test(t, rc)
        \/ rdlock_return(t, rc)
        \/ wrlock_return(t, rc)
        \/ unlock_return(t, rc)

\* a step of the lock or of a thread inside a lock function
LockStep ==
    \/ MainStep
    \/ NullCall
    \/ \E t \in Threads : Acquire(t)
    \/ \E t \in Threads : Progress(t)
    \/ \E t \in Threads : spurious_wakeup(t)

Next == LockStep /\ UNCHANGED harnessVars

\* every interleaving of the workers, the primitives never failing
Spec == Init /\ [][Next]_vars

NextFault ==
    \/ Next
    \/ (\E t \in Threads : Fault(t)) /\ UNCHANGED harnessVars

\* the same, with primitives that may report a failure
SpecFault == Init /\ [][NextFault]_vars

\* the workers alone: the owner's calls with a null handle, which touch
\* nothing but its own return value, are left out
NextWork ==
    /\ \/ MainStep
       \/ \E t \in Threads : Acquire(t)
       \/ \E t \in Threads : Progress(t)
       \/ \E t \in Threads : spurious_wakeup(t)
    /\ UNCHANGED harnessVars

\* fair scheduling: a running thread keeps running, and a thread that needs
\* the internal mutex gets it if the mutex is free again and again
Fairness ==
    \A t \in Threads :
        /\ WF_vars(Progress(t) /\ UNCHANGED harnessVars)
        /\ SF_vars(Acquire(t) /\ UNCHANGED harnessVars)

SpecFair == Init /\ [][NextWork]_vars /\ Fairness

(* =========================================================== the list *)
\* the loop of Insert, Member and Delete: starting with pred p and curr c,
\* go on while curr is not NULL and its data is below value.  A list has at
\* most as many nodes as there are addresses, which bounds the iterations.
RECURSIVE Walk(_, _, _, _)
Walk(p, c, value, fuel) ==
    IF c # NULL /\ fuel > 0 /\ data[c] < value
    THEN Walk(c, next[c], value, fuel - 1)
    ELSE <<p, c>>

\* <<pred, curr>> when the loop started at head ends
Traverse(value) == Walk(NULL, head, value, Cardinality(Addr))

\* malloc for the node that is to hold value: a free address, NULL when
\* none is free.  The program compares a node's address with NULL only, so
\* which free address it gets is immaterial, and the model takes the
\* address numbered like the value when that one is free, the lowest free
\* one otherwise.
malloc(value) ==
    IF Addr \ alloc = {} THEN NULL
    ELSE IF value \in Addr \ alloc THEN value
    ELSE CHOOSE a \in Addr \ alloc : \A b \in Addr \ alloc : a <= b

\* the value Insert returns when its loop ended at c
Insert_rv(value, c) == IF c = NULL \/ data[c] > value THEN 1 ELSE 0

\* mutant: a node is linked in also when c holds value
Insert_link_Duplicates(value, p, c, temp) ==
    IF c = NULL \/ data[c] >= value
    THEN /\ temp # NULL
         /\ data' = [data EXCEPT ![temp] = value]
         /\ next' = IF p = NULL THEN [next EXCEPT ![temp] = c]
                    ELSE [next EXCEPT ![temp] = c, ![p] = temp]
         /\ head' = IF p = NULL THEN temp ELSE head
         /\ alloc' = alloc \cup {temp}
    ELSE UNCHANGED listVars

\* the if statement of Insert, for the pred p and curr c its loop ended
\* with: a new node temp is linked in before c unless c holds value
Insert_link(value, p, c, temp) ==
    IF c = NULL \/ data[c] > value
    THEN /\ temp # NULL
         /\ data' = [data EXCEPT ![temp] = value]
         /\ next' = IF p = NULL THEN [next EXCEPT ![temp] = c]
                    ELSE [next EXCEPT ![temp] = c, ![p] = temp]
         /\ head' = IF p = NULL THEN temp ELSE head
         /\ alloc' = alloc \cup {temp}
    ELSE UNCHANGED listVars

\* Insert called by a single thread, from entry to return
Insert(value, r) ==
    LET pc2 == Traverse(value) IN
        /\ r = Insert_rv(value, pc2[2])
        /\ Insert_link(value, pc2[1], pc2[2], malloc(value))

\* mutant: any node the loop stops at counts as a match
Member_NoExactMatch(value) ==
    LET temp == Traverse(value)[2] IN
        IF temp = NULL THEN 0 ELSE 1

\* Member, which writes nothing
Member(value) ==
    LET temp == Traverse(value)[2] IN
        IF temp = NULL \/ data[temp] > value THEN 0 ELSE 1

\* the value Delete returns when its loop ended at c
Delete_rv(value, c) == IF c # NULL /\ data[c] = value THEN 1 ELSE 0

\* mutant: unlinking the first node empties the list
Delete_unlink_DropsRest(value, p, c) ==
    IF c # NULL /\ data[c] = value
    THEN /\ head' = IF p = NULL THEN NULL ELSE head
         /\ next' = IF p = NULL THEN [next EXCEPT ![c] = NULL]
                    ELSE [next EXCEPT ![p] = next[c], ![c] = NULL]
         /\ data' = [data EXCEPT ![c] = 0]
         /\ alloc' = alloc \ {c}
    ELSE UNCHANGED listVars

\* the if statement of Delete: the node c is unlinked and freed if it holds
\* value (the fields of a freed node are cleared, nothing reads them)
Delete_unlink(value, p, c) ==
    IF c # NULL /\ data[c] = value
    THEN /\ head' = IF p = NULL THEN next[c] ELSE head
         /\ next' = IF p = NULL THEN [next EXCEPT ![c] = NULL]
                    ELSE [next EXCEPT ![p] = next[c], ![c] = NULL]
         /\ data' = [data EXCEPT ![c] = 0]
         /\ alloc' = alloc \ {c}
    ELSE UNCHANGED listVars

(* =============================================================== main *)
\* thread counts given on the command line
MaxWorkers == NumThreads - 1
\* the operation mixes entered: <<search_percent, insert_percent>> in units
\* of 1/Scale (searches only, inserts only, deletes only, some of each)
Mixes == {<<Scale, 0>>, <<0, Scale>>, <<0, 0>>, <<1, 1>>}

\* the numbers of keys asked for in the main thread: none, or as many as
\* there are keys (a duplicate draw uses up an attempt, so that every
\* sorted list of keys is the outcome of some pre-population)
InsertsInMain == {0, MaxKey}
\* the numbers of operations asked for
TotalOps == 0..MaxTotalOps

\* the workers exist: main is creating or joining them
Running == hpc \in {"create", "join"}

\* Usage: the usage line on stderr, then exit(0)
Usage ==
    /\ usage' = TRUE
    /\ exit_status' = 0
    /\ hpc' = "exited"

\* main up to Get_input: the argument count check and strtol of argv[1]
main_args(tc) ==
    /\ hpc = "start"
    /\ IF argc # 2
       THEN Usage /\ UNCHANGED thread_count
       ELSE /\ thread_count' = tc
            /\ hpc' = "input"
            /\ UNCHANGED <<usage, exit_status>>
    /\ UNCHANGED <<harness, argc, total_ops, search_percent, insert_percent,
                   inserts_in_main, main_i, attempts,
                   listVars, workVars, countVars>>

\* Get_input reads the four numbers; main then clears i and attempts
Get_input(n, ops, sp, ip) ==
    /\ hpc = "input"
    /\ inserts_in_main' = n
    /\ total_ops' = ops
    /\ search_percent' = sp
    /\ insert_percent' = ip
    /\ main_i' = 0
    /\ attempts' = 0
    /\ hpc' = "populate"
    /\ UNCHANGED <<harness, argc, thread_count, exit_status, usage,
                   listVars, workVars, countVars>>

\* mutant: the loop allows one attempt more
main_populate_ExtraAttempt(key) ==
    /\ hpc = "populate"
    /\ IF main_i < inserts_in_main /\ attempts <= 2 * inserts_in_main
       THEN \E success \in {0, 1} :
               /\ Insert(key, success)
               /\ attempts' = attempts + 1
               /\ main_i' = main_i + success
               /\ UNCHANGED hpc
       ELSE /\ hpc' = "setup"
            /\ UNCHANGED <<listVars, attempts, main_i>>
    /\ UNCHANGED <<cfgVars, exit_status, usage, workVars, countVars>>

\* one test of the pre-population loop: an iteration inserting key, or the
\* exit from the loop
main_populate(key) ==
    /\ hpc = "populate"
    /\ IF main_i < inserts_in_main /\ attempts < 2 * inserts_in_main
       THEN \E success \in {0, 1} :
               /\ Insert(key, success)
               /\ attempts' = attempts + 1
               /\ main_i' = main_i + success
               /\ UNCHANGED hpc
       ELSE /\ hpc' = "setup"
            /\ UNCHANGED <<listVars, attempts, main_i>>
    /\ UNCHANGED <<cfgVars, exit_status, usage, workVars, countVars>>

\* the initialisation of count_mutex and of the lock; i is cleared for the
\* creation loop.  attempts is not read again, and the model forgets it
\* here.
main_setup ==
    /\ hpc = "setup"
    /\ hpc' = "create"
    /\ main_i' = 0
    /\ attempts' = 0
    /\ UNCHANGED <<cfgVars, exit_status, usage, listVars, workVars, countVars>>

\* one iteration of the creation loop: pthread_create of worker i + 1 (the
\* failing loop test after the last iteration is part of that iteration)
main_create ==
    /\ hpc = "create"
    /\ main_i < thread_count
    /\ wpc' = [wpc EXCEPT ![main_i + 1] = "loop"]
    /\ IF main_i + 1 < thread_count
       THEN main_i' = main_i + 1 /\ UNCHANGED hpc
       ELSE main_i' = 0 /\ hpc' = "join"
    /\ UNCHANGED <<cfgVars, exit_status, usage, attempts, listVars,
                   op, val, curr, pred, rv,
                   my_member_count, my_insert_count, my_delete_count,
                   countVars>>

\* one iteration of the join loop: pthread_join returns once worker i + 1
\* has returned from Thread_work
main_join ==
    /\ hpc = "join"
    /\ main_i < thread_count
    /\ wpc[main_i + 1] = "done"
    /\ IF main_i + 1 < thread_count
       THEN main_i' = main_i + 1 /\ UNCHANGED hpc
       ELSE main_i' = 0 /\ hpc' = "report"
    /\ UNCHANGED <<cfgVars, exit_status, usage, attempts,
                   listVars, workVars, countVars>>

\* the counters are printed, Free_list frees every node (head is left
\* pointing at freed memory) and main returns 0
main_report ==
    /\ hpc = "report"
    /\ alloc' = {}
    /\ data' = [a \in Addr |-> 0]
    /\ next' = [a \in Addr |-> NULL]
    /\ exit_status' = 0
    /\ hpc' = "exited"
    /\ UNCHANGED <<cfgVars, usage, main_i, attempts, head, workVars, countVars>>

(* ======================================================== Thread_work *)
\* Thread_work's ops_per_thread
ops_per_thread == total_ops \div thread_count

\* mutant: the draw is taken to lie in (0, 1]
Branch_OffByOne(which_op) ==
    IF which_op + 1 < search_percent THEN "member"
    ELSE IF which_op + 1 < search_percent + insert_percent THEN "insert"
    ELSE "delete"

\* the branch taken for a draw which_op of my_drand, in units of 1/Scale
Branch(which_op) ==
    IF which_op < search_percent THEN "member"
    ELSE IF which_op < search_percent + insert_percent THEN "insert"
    ELSE "delete"

\* the draws of my_drand, which lie in [0, 1)
Draws == 0..(Scale - 1)

\* the lock of the library: any number of readers or one writer
pthread_rwlock_rdlock(t) ==
    /\ \A u \in Threads : held[u] # "write"
    /\ held' = [held EXCEPT ![t] = "read"]

pthread_rwlock_wrlock(t) ==
    /\ \A u \in Threads : held[u] = "none"
    /\ held' = [held EXCEPT ![t] = "write"]

pthread_rwlock_unlock(t) ==
    held' = [held EXCEPT ![t] = "none"]

\* what the steps of the workload leave alone in the lock of my_rwlock.c
lockIdle == <<lockVars, primVars, mainVars, pc, ret, primFail, faults>>

\* the head of an iteration: the two draws, then the branch on which_op
Thread_work_draw(t, which_op, v) ==
    /\ Running
    /\ wpc[t] = "loop"
    /\ i[t] < ops_per_thread
    /\ op' = [op EXCEPT ![t] = Branch(which_op)]
    /\ val' = [val EXCEPT ![t] = v]

\* mutant: Insert and Delete run under the read lock
Thread_work_lock_ReadLockOnly(t, which_op, v) ==
    /\ Thread_work_draw(t, which_op, v)
    /\ pthread_rwlock_rdlock(t)
    /\ wpc' = [wpc EXCEPT ![t] = "cs"]
    /\ UNCHANGED <<lockIdle, i, cfgVars, listVars, procVars, countVars,
                   curr, pred, rv,
                   my_member_count, my_insert_count, my_delete_count>>

\* an iteration begins: the draws and the call of pthread_rwlock_rdlock or
\* pthread_rwlock_wrlock, which returns when the lock is granted
Thread_work_lock(t, which_op, v) ==
    /\ Thread_work_draw(t, which_op, v)
    /\ IF Branch(which_op) = "member"
       THEN pthread_rwlock_rdlock(t)
       ELSE pthread_rwlock_wrlock(t)
    /\ wpc' = [wpc EXCEPT ![t] = "cs"]
    /\ UNCHANGED <<lockIdle, i, cfgVars, listVars, procVars, countVars,
                   curr, pred, rv,
                   my_member_count, my_insert_count, my_delete_count>>

\* Member(val) under the read lock
Thread_work_member(t) ==
    /\ Running
    /\ wpc[t] = "cs"
    /\ op[t] = "member"
    /\ rv' = [rv EXCEPT ![t] = Member(val[t])]
    /\ wpc' = [wpc EXCEPT ![t] = "unlock"]
    /\ UNCHANGED <<cfgVars, listVars, procVars, countVars, op, val, curr, pred,
                   my_member_count, my_insert_count, my_delete_count>>

\* the loop of Insert(val) or Delete(val) under the write lock
Thread_work_find(t) ==
    /\ Running
    /\ wpc[t] = "cs"
    /\ op[t] \in {"insert", "delete"}
    /\ pred' = [pred EXCEPT ![t] = Traverse(val[t])[1]]
    /\ curr' = [curr EXCEPT ![t] = Traverse(val[t])[2]]
    /\ wpc' = [wpc EXCEPT ![t] = "link"]
    /\ UNCHANGED <<cfgVars, listVars, procVars, countVars, op, val, rv,
                   my_member_count, my_insert_count, my_delete_count>>

\* the rest of Insert(val) or Delete(val), up to its return
Thread_work_link(t) ==
    /\ Running
    /\ wpc[t] = "link"
    /\ IF op[t] = "insert"
       THEN /\ Insert_link(val[t], pred[t], curr[t], malloc(val[t]))
            /\ rv' = [rv EXCEPT ![t] = Insert_rv(val[t], curr[t])]
       ELSE /\ Delete_unlink(val[t], pred[t], curr[t])
            /\ rv' = [rv EXCEPT ![t] = Delete_rv(val[t], curr[t])]
    /\ pred' = [pred EXCEPT ![t] = NULL]
    /\ curr' = [curr EXCEPT ![t] = NULL]
    /\ wpc' = [wpc EXCEPT ![t] = "unlock"]
    /\ UNCHANGED <<cfgVars, procVars, countVars, op, val,
                   my_member_count, my_insert_count, my_delete_count>>

\* the increment of the local counter of the branch
Thread_work_count(t) ==
    /\ my_member_count' =
          [my_member_count EXCEPT ![t] = @ + (IF op[t] = "member" THEN 1 ELSE 0)]
    /\ my_insert_count' =
          [my_insert_count EXCEPT ![t] = @ + (IF op[t] = "insert" THEN 1 ELSE 0)]
    /\ my_delete_count' =
          [my_delete_count EXCEPT ![t] = @ + (IF op[t] = "delete" THEN 1 ELSE 0)]

\* the end of an iteration.  which_op, val and the value the list function
\* returned are not read again, and the model forgets them here.
Thread_work_next(t) ==
    /\ Thread_work_count(t)
    /\ op' = [op EXCEPT ![t] = "none"]
    /\ val' = [val EXCEPT ![t] = 0]
    /\ rv' = [rv EXCEPT ![t] = NoRet]
    /\ wpc' = [wpc EXCEPT ![t] = "loop"]

\* mutant: the lock is not released at the end of an iteration
Thread_work_unlock_KeepsLock(t) ==
    /\ Running
    /\ wpc[t] = "unlock"
    /\ UNCHANGED held
    /\ Thread_work_next(t)
    /\ i' = [i EXCEPT ![t] = i[t] + 1]
    /\ UNCHANGED <<lockIdle, cfgVars, listVars, procVars, countVars,
                   curr, pred>>

\* pthread_rwlock_unlock, the increment of the local counter and i++
Thread_work_unlock(t) ==
    /\ Running
    /\ wpc[t] = "unlock"
    /\ pthread_rwlock_unlock(t)
    /\ Thread_work_next(t)
    /\ i' = [i EXCEPT ![t] = i[t] + 1]
    /\ UNCHANGED <<lockIdle, cfgVars, listVars, procVars, countVars,
                   curr, pred>>

\* mutant: the global counters are updated without count_mutex
Thread_work_merge_lock_NoMutex(t) ==
    /\ Running
    /\ wpc[t] = "loop"
    /\ ~(i[t] < ops_per_thread)
    /\ wpc' = [wpc EXCEPT ![t] = "merge"]
    /\ UNCHANGED <<cfgVars, listVars, procVars, op, val, curr, pred, rv,
                   my_member_count, my_insert_count, my_delete_count,
                   member_count, insert_count, delete_count, loaded,
                   count_mutex>>

\* the loop is over: pthread_mutex_lock(&count_mutex)
Thread_work_merge_lock(t) ==
    /\ Running
    /\ wpc[t] = "loop"
    /\ ~(i[t] < ops_per_thread)
    /\ count_mutex = NoThread
    /\ count_mutex' = t
    /\ wpc' = [wpc EXCEPT ![t] = "merge"]
    /\ UNCHANGED <<cfgVars, listVars, procVars, op, val, curr, pred, rv,
                   my_member_count, my_insert_count, my_delete_count,
                   member_count, insert_count, delete_count, loaded>>

\* the three += statements read the global counters ...
Thread_work_merge_load(t) ==
    /\ Running
    /\ wpc[t] = "merge"
    /\ loaded' = [loaded EXCEPT ![t] = <<member_count, insert_count, delete_count>>]
    /\ wpc' = [wpc EXCEPT ![t] = "store"]
    /\ UNCHANGED <<cfgVars, listVars, procVars, op, val, curr, pred, rv,
                   my_member_count, my_insert_count, my_delete_count,
                   member_count, insert_count, delete_count, count_mutex>>

\* ... and write the sums back; then pthread_mutex_unlock(&count_mutex) and
\* the return from Thread_work, with which its local variables are gone
Thread_work_merge_store(t) ==
    /\ Running
    /\ wpc[t] = "store"
    /\ member_count' = loaded[t][1] + my_member_count[t]
    /\ insert_count' = loaded[t][2] + my_insert_count[t]
    /\ delete_count' = loaded[t][3] + my_delete_count[t]
    /\ loaded' = [loaded EXCEPT ![t] = <<>>]
    /\ count_mutex' = NoThread
    /\ wpc' = [wpc EXCEPT ![t] = "done"]
    /\ my_member_count' = [my_member_count EXCEPT ![t] = 0]
    /\ my_insert_count' = [my_insert_count EXCEPT ![t] = 0]
    /\ my_delete_count' = [my_delete_count EXCEPT ![t] = 0]
    /\ UNCHANGED <<cfgVars, listVars, procVars, op, val, curr, pred, rv>>

\* the steps of a worker between its lock calls, the same for either lock
Thread_work_body(t) ==
    \/ Thread_work_member(t)
    \/ Thread_work_find(t)
    \/ Thread_work_link(t)
    \/ Thread_work_merge_lock(t)
    \/ Thread_work_merge_load(t)
    \/ Thread_work_merge_store(t)

\* the steps of main, but for the initialisation of the lock
main_step(TC, N, OPS, MIX) ==
    \/ \E tc \in TC : main_args(tc)
    \/ \E n \in N, ops \in OPS, m \in MIX : Get_input(n, ops, m[1], m[2])
    \/ \E key \in Keys : main_populate(key)
    \/ main_create
    \/ main_join
    \/ main_report

(* ------------------------------------------- the run of test_pthread_rwlock *)
InitPthread ==
    /\ LockStart({0})
    /\ ProgramStart("pthread", {1, 2, 3})

PthreadStep ==
    \/ /\ main_step(1..MaxWorkers, InsertsInMain, TotalOps, Mixes)
       /\ UNCHANGED <<lockIdle, held, i>>
    \/ main_setup /\ UNCHANGED <<lockIdle, held, i>>
    \/ \E t \in Threads :
          /\ Thread_work_body(t)
          /\ UNCHANGED <<lockIdle, held, i>>
    \/ \E t \in Threads, which_op \in Draws, v \in Keys :
          Thread_work_lock(t, which_op, v)
    \/ \E t \in Threads : Thread_work_unlock(t)

NextPthread == PthreadStep /\ UNCHANGED <<ref, mandelVars>>

SpecPthread == InitPthread /\ [][NextPthread]_vars

(* ---------------------------------------------- when malloc returns NULL *)
\* Neither Insert nor main tests what malloc returned.  Storing through a
\* null pointer is undefined: the process is killed by SIGSEGV, or the
\* stores are lost and the program goes on.

\* the process is killed by a signal: no statement runs any more
Killed ==
    /\ hpc' = "killed"
    /\ UNCHANGED <<exit_status, usage, main_i, attempts>>

\* the if statement of Insert with temp = NULL, its stores through temp
\* lost: head or pred->next is set to NULL
Insert_null(p) ==
    /\ head' = IF p = NULL THEN NULL ELSE head
    /\ next' = IF p = NULL THEN next ELSE [next EXCEPT ![p] = NULL]
    /\ UNCHANGED <<data, alloc>>

\* an iteration of the pre-population loop in which malloc fails
main_populate_nomem(key) ==
    /\ hpc = "populate"
    /\ main_i < inserts_in_main /\ attempts < 2 * inserts_in_main
    /\ Insert_rv(key, Traverse(key)[2]) = 1
    /\ \/ Killed /\ UNCHANGED listVars
       \/ /\ Insert_null(Traverse(key)[1])
          /\ attempts' = attempts + 1
          /\ main_i' = main_i + 1
          /\ UNCHANGED <<hpc, exit_status, usage>>
    /\ UNCHANGED <<cfgVars, workVars, countVars>>

\* malloc of thread_handles fails: pthread_create stores the thread's id
\* through the null pointer
main_setup_nomem ==
    /\ hpc = "setup"
    /\ \/ Killed
       \/ /\ hpc' = "create"
          /\ main_i' = 0
          /\ attempts' = 0
          /\ UNCHANGED <<exit_status, usage>>
    /\ UNCHANGED <<cfgVars, listVars, workVars, countVars>>

\* the rest of a worker's Insert(val) in which malloc fails
Thread_work_link_nomem(t) ==
    /\ Running
    /\ wpc[t] = "link"
    /\ op[t] = "insert"
    /\ Insert_rv(val[t], curr[t]) = 1
    /\ \/ Killed /\ UNCHANGED <<listVars, workVars>>
       \/ /\ Insert_null(pred[t])
          /\ rv' = [rv EXCEPT ![t] = 1]
          /\ pred' = [pred EXCEPT ![t] = NULL]
          /\ curr' = [curr EXCEPT ![t] = NULL]
          /\ wpc' = [wpc EXCEPT ![t] = "unlock"]
          /\ UNCHANGED <<procVars, op, val,
                         my_member_count, my_insert_count, my_delete_count>>
    /\ UNCHANGED <<cfgVars, countVars>>

\* a step in which an allocation fails
AllocFails ==
    \/ \E key \in Keys : main_populate_nomem(key)
    \/ main_setup_nomem
    \/ \E t \in Threads : Thread_work_link_nomem(t)

NextAlloc ==
    \/ NextPthread
    \/ AllocFails /\ UNCHANGED <<lockIdle, held, i, ref, mandelVars>>

\* test_pthread_rwlock with a malloc that may fail
SpecAlloc == InitPthread /\ [][NextAlloc]_vars

(* ------------------------------------- the same workload on my_rwlock.c *)
\* The workload built with the lock of my_rwlock.c (test_custom) calls
\* my_rwlock_init, my_rwlock_rdlock, my_rwlock_wrlock and my_rwlock_unlock
\* where test_pthread_rwlock.c calls the functions of the library.

\* Insert, Member and Delete on a sorted sequence of keys
RECURSIVE RefInsert(_, _)
RefInsert(s, k) ==
    IF s = <<>> THEN <<k>>
    ELSE IF Head(s) < k THEN <<Head(s)>> \o RefInsert(Tail(s), k)
    ELSE IF Head(s) = k THEN s
    ELSE <<k>> \o s

RefHas(s, k) == \E j \in 1..Len(s) : s[j] = k

RefDelete(s, k) == SelectSeq(s, LAMBDA x : x # k)

\* one iteration of Thread_work with the lock calls removed
RefStep(r, o, k) ==
    IF o = "member"
    THEN <<r[1], IF RefHas(r[1], k) THEN 1 ELSE 0, r[3] + 1, r[4], r[5]>>
    ELSE IF o = "insert"
    THEN <<RefInsert(r[1], k), IF RefHas(r[1], k) THEN 0 ELSE 1,
           r[3], r[4] + 1, r[5]>>
    ELSE <<RefDelete(r[1], k), IF RefHas(r[1], k) THEN 1 ELSE 0,
           r[3], r[4], r[5] + 1>>

\* the keys of the list, from head on
RECURSIVE Chain(_, _)
Chain(c, fuel) ==
    IF c = NULL \/ fuel = 0 THEN <<>>
    ELSE <<data[c]>> \o Chain(next[c], fuel - 1)

ListOf == Chain(head, Cardinality(Addr) + 1)

\* the thread counts of the runs: one worker, and two workers that draw
\* the same key
CustomThreadCounts == {1, 2}
CustomKeys == IF thread_count = 1 THEN Keys ELSE {MaxKey}

\* my_rwlock_init in place of pthread_rwlock_init
custom_setup ==
    /\ main_setup
    /\ my_rwlock_init("rwlock", 0, 0, 0)
    /\ ref' = <<ListOf, NoRet, 0, 0, 0>>

\* an iteration begins: the draws and the entry of my_rwlock_rdlock or
\* my_rwlock_wrlock
custom_lock_call(t, which_op, v) ==
    /\ Thread_work_draw(t, which_op, v)
    /\ IF Branch(which_op) = "member"
       THEN rdlock_call(t, "rwlock", 0)
       ELSE wrlock_call(t, "rwlock", 0)
    /\ wpc' = [wpc EXCEPT ![t] = "call"]
    /\ ref' = RefStep(ref, Branch(which_op), v)
    /\ UNCHANGED <<cfgVars, listVars, procVars, countVars, curr, pred, rv,
                   my_member_count, my_insert_count, my_delete_count>>

\* the steps inside the three lock functions
custom_lock_step(t) ==
    /\ \/ rdlock_inc(t)
       \/ rdlock_test(t, 0)
       \/ rdlock_wakeup(t)
       \/ rdlock_admit(t)
       \/ wrlock_inc(t)
       \/ wrlock_test(t, 0)
       \/ wrlock_wakeup(t)
       \/ wrlock_admit(t)
       \/ unlock_body(t)
       \/ spurious_wakeup(t)
    /\ UNCHANGED harnessVars

\* my_rwlock_rdlock or my_rwlock_wrlock returns
custom_lock_return(t) ==
    /\ wpc[t] = "call"
    /\ rdlock_return(t, 0) \/ wrlock_return(t, 0)
    /\ wpc' = [wpc EXCEPT ![t] = "cs"]
    /\ UNCHANGED <<cfgVars, listVars, procVars, countVars, op, val, curr, pred,
                   rv, my_member_count, my_insert_count, my_delete_count, ref>>

\* the entry of my_rwlock_unlock
custom_unlock_call(t) ==
    /\ Running
    /\ wpc[t] = "unlock"
    /\ unlock_call(t, "rwlock", 0)
    /\ wpc' = [wpc EXCEPT ![t] = "unlocking"]
    /\ UNCHANGED <<cfgVars, listVars, procVars, countVars, op, val, curr, pred,
                   rv, my_member_count, my_insert_count, my_delete_count, ref>>

\* my_rwlock_unlock returns; the increment of the local counter and i++
custom_unlock_return(t) ==
    /\ wpc[t] = "unlocking"
    /\ unlock_return(t, 0)
    /\ Thread_work_next(t)
    /\ UNCHANGED <<cfgVars, listVars, procVars, countVars, curr, pred, ref>>

InitCustom ==
    /\ LockStart({0})
    /\ ProgramStart("custom", {2})

\* the steps of main, asked for one of N numbers of keys
custom_main(N) ==
    \/ /\ main_step(CustomThreadCounts, N, TotalOps, Mixes)
       /\ UNCHANGED <<lockIdle, held, i, ref>>
    \/ custom_setup

\* the steps of the workers
custom_work ==
    \/ \E t \in Threads :
          /\ Thread_work_body(t)
          /\ UNCHANGED <<lockIdle, held, i, ref>>
    \/ \E t \in Threads, which_op \in Draws, v \in CustomKeys :
          custom_lock_call(t, which_op, v)
    \/ \E t \in Threads : custom_lock_step(t)
    \/ \E t \in Threads : custom_lock_return(t)
    \/ \E t \in Threads : custom_unlock_call(t)
    \/ \E t \in Threads : custom_unlock_return(t)

NextCustom ==
    /\ custom_main(InsertsInMain) \/ custom_work
    /\ UNCHANGED mandelVars

SpecCustom == InitCustom /\ [][NextCustom]_vars

\* steps of worker t that need nothing but the processor
custom_run(t) ==
    \/ /\ \/ rdlock_inc(t)
          \/ rdlock_test(t, 0)
          \/ rdlock_admit(t)
          \/ wrlock_inc(t)
          \/ wrlock_test(t, 0)
          \/ wrlock_admit(t)
          \/ unlock_body(t)
       /\ UNCHANGED harnessVars
    \/ custom_lock_return(t)
    \/ custom_unlock_return(t)
    \/ /\ \/ Thread_work_member(t)
          \/ Thread_work_find(t)
          \/ Thread_work_link(t)
          \/ Thread_work_merge_load(t)
          \/ Thread_work_merge_store(t)
       /\ UNCHANGED <<lockIdle, held, i, ref>>

\* steps of worker t that take the internal mutex of the lock or count_mutex
custom_acquire(t) ==
    \/ \E which_op \in Draws, v \in CustomKeys : custom_lock_call(t, which_op, v)
    \/ custom_unlock_call(t)
    \/ (rdlock_wakeup(t) \/ wrlock_wakeup(t)) /\ UNCHANGED harnessVars
    \/ Thread_work_merge_lock(t) /\ UNCHANGED <<lockIdle, held, i, ref>>

\* the runs checked for termination start with an empty list
EmptyStart == {0}

\* fair scheduling: main and every worker keep running, and a worker that
\* needs a mutex gets it if the mutex is free again and again
CustomFairness ==
    /\ WF_vars(custom_main(EmptyStart) /\ UNCHANGED mandelVars)
    /\ \A t \in Threads :
          /\ WF_vars(custom_run(t) /\ UNCHANGED mandelVars)
          /\ SF_vars(custom_acquire(t) /\ UNCHANGED mandelVars)

NextCustomFair ==
    /\ custom_main(EmptyStart) \/ custom_work
    /\ UNCHANGED mandelVars

SpecCustomFair == InitCustom /\ [][NextCustomFair]_vars /\ CustomFairness

(* ================================================ the Mandelbrot sampler *)
\* main of firstTask.c collects npoints points of the Mandelbrot set in
\* points[], sampled by a team of nthreads OpenMP threads.

\* the threads of the team
Team == 1..nthreads

\* main up to the parallel region: the argument checks and the allocation
\* of points[].  The model keeps a write count for each cell of points[]
\* and for the memory behind it that an index handed out could address.
mandel_main(nt, np) ==
    /\ hpc = "start"
    /\ IF argc # 3
       THEN /\ usage' = TRUE
            /\ exit_status' = 1
            /\ hpc' = "exited"
            /\ UNCHANGED mandelVars
       ELSE IF np <= 0 \/ nt <= 0
       THEN /\ exit_status' = 1
            /\ hpc' = "exited"
            /\ UNCHANGED <<usage, mandelVars>>
       ELSE /\ nthreads' = nt
            /\ npoints' = np
            /\ count' = 0
            /\ opc' = [t \in 1..nt |-> "read"]
            /\ current_index' = [t \in 1..nt |-> 0]
            /\ points' = [j \in 0..(np + nt) |-> 0]
            /\ hpc' = "parallel"
            /\ UNCHANGED <<usage, exit_status>>

\* the head of the loop: the atomic read of count and the test against
\* npoints, then a sample that mandelbrotContains accepts (inside) or not
omp_read(t, inside) ==
    /\ hpc = "parallel"
    /\ opc[t] = "read"
    /\ opc' = [opc EXCEPT ![t] = IF count >= npoints THEN "done"
                                 ELSE IF inside THEN "capture"
                                 ELSE "read"]
    /\ UNCHANGED <<nthreads, npoints, count, current_index, points,
                   hpc, exit_status, usage>>

\* the atomic capture: current_index = count++
omp_capture(t) ==
    /\ hpc = "parallel"
    /\ opc[t] = "capture"
    /\ current_index' = [current_index EXCEPT ![t] = count]
    /\ count' = count + 1
    /\ opc' = [opc EXCEPT ![t] = "store"]
    /\ UNCHANGED <<nthreads, npoints, points, hpc, exit_status, usage>>

\* mutant: the cell behind the last one is written as well
omp_store_OffByOne(t) ==
    /\ hpc = "parallel"
    /\ opc[t] = "store"
    /\ IF current_index[t] <= npoints
       THEN /\ points' = [points EXCEPT ![current_index[t]] = @ + 1]
            /\ opc' = [opc EXCEPT ![t] = "read"]
       ELSE /\ opc' = [opc EXCEPT ![t] = "done"]
            /\ UNCHANGED points
    /\ current_index' = [current_index EXCEPT ![t] = 0]
    /\ UNCHANGED <<nthreads, npoints, count, hpc, exit_status, usage>>

\* the test of current_index: the point is stored in points[current_index],
\* or the thread leaves the loop.  current_index goes out of scope.
omp_store(t) ==
    /\ hpc = "parallel"
    /\ opc[t] = "store"
    /\ IF current_index[t] < npoints
       THEN /\ points' = [points EXCEPT ![current_index[t]] = @ + 1]
            /\ opc' = [opc EXCEPT ![t] = "read"]
       ELSE /\ opc' = [opc EXCEPT ![t] = "done"]
            /\ UNCHANGED points
    /\ current_index' = [current_index EXCEPT ![t] = 0]
    /\ UNCHANGED <<nthreads, npoints, count, hpc, exit_status, usage>>

\* the end of the parallel region, reached when every thread of the team
\* has left its loop; main writes the file and returns 0, or returns 1
\* when fopen fails
mandel_finish(status) ==
    /\ hpc = "parallel"
    /\ \A t \in Team : opc[t] = "done"
    /\ exit_status' = status
    /\ hpc' = "exited"
    /\ UNCHANGED <<usage, mandelVars>>

\* the numbers of points asked for
Points == 0..MaxPoints

InitMandel ==
    /\ LockStart({0})
    /\ ProgramStart("mandelbrot", {2, 3})

NextMandel ==
    /\ \/ \E nt \in 0..NumThreads, np \in Points : mandel_main(nt, np)
       \/ \E t \in Team, inside \in BOOLEAN : omp_read(t, inside)
       \/ \E t \in Team : omp_capture(t)
       \/ \E t \in Team : omp_store(t)
       \/ \E status \in {0, 1} : mandel_finish(status)
    /\ UNCHANGED <<lockVars, primVars, mainVars, thrVars, cfgVars, listVars,
                   workVars, countVars, ref, main_i, attempts>>

SpecMandel == InitMandel /\ [][NextMandel]_vars

(* =============================================================== claims *)
\* my_rwlock_init has returned 0
Inited == mpc \in {"run", "destroyed"}

\* threads parked on a condition variable
Parked == readers_cv \cup writers_cv

\* thread t takes the step of my_rwlock_rdlock that increments active_readers
ReaderAdmitted(t) == pc[t] = "rd_admit" /\ pc'[t] = "rd_unlock"

\* thread t takes the step of my_rwlock_wrlock that sets writer_active
WriterAdmitted(t) == pc[t] = "wr_admit" /\ pc'[t] = "wr_unlock"

\* thread t takes the step of my_rwlock_unlock that releases the lock
Released(t) == pc[t] = "un_body" /\ pc'[t] = "un_unlock"

\* C1: once the lock is initialised, active_readers > 0 and writer_active
\* never hold together, in any interleaving of well-paired threads.
C1_MutualExclusion ==
    Inited => ~(active_readers > 0 /\ writer_active # 0)

\* C1 witness: a writer holds the lock while a reader and another writer are
\* parked behind it.
C1_Witness ==
    /\ writer_active = 1
    /\ readers_cv # {}
    /\ writers_cv # {}

\* C2: at most one thread is between a returned my_rwlock_wrlock and its
\* my_rwlock_unlock, and while there is one no thread is between a returned
\* my_rwlock_rdlock and its my_rwlock_unlock.
C2_WriterExclusive ==
    /\ Cardinality({t \in Threads : held[t] = "write"}) <= 1
    /\ (\E t \in Threads : held[t] = "write")
          => ~(\E t \in Threads : held[t] = "read")

\* C2 witness: one thread holds the write lock while another is blocked in
\* my_rwlock_rdlock and a third in my_rwlock_wrlock.
C2_Witness ==
    \E t, r, w \in Threads :
        /\ held[t] = "write" /\ pc[t] = "locked"
        /\ pc[r] = "rd_wait"
        /\ pc[w] = "wr_wait"

\* C3: every step that increments active_readers starts in a state where
\* writer_active is false and waiting_writers is 0, also for a reader that
\* has been woken (by a broadcast or spuriously).
C3_ReaderGuard ==
    [][\A t \in Threads :
          ReaderAdmitted(t) => writer_active = 0 /\ waiting_writers = 0]_vars

\* C3 witness: a woken reader is about to be admitted while another reader,
\* woken with it, has not yet taken the mutex again.
C3_Witness ==
    \E t, u \in Threads :
        /\ pc[t] = "rd_admit"
        /\ u # t /\ pc[u] = "rd_wait" /\ u \notin readers_cv

\* C4: every step that sets writer_active starts in a state where
\* active_readers is 0 and writer_active is false, also when the writer was
\* signalled and another writer took the lock before it.
C4_WriterGuard ==
    [][\A t \in Threads :
          WriterAdmitted(t) => active_readers = 0 /\ writer_active = 0]_vars

\* C4 witness: a writer is about to take the lock while a signalled writer
\* has not yet taken the mutex again.
C4_Witness ==
    \E t, u \in Threads :
        /\ pc[t] = "wr_admit"
        /\ u # t /\ pc[u] = "wr_wait" /\ u \notin writers_cv

\* thread t is inside my_rwlock_wrlock, counted in waiting_writers or just
\* admitted
InWrlock(t) == pc[t] \in {"wr_test", "wr_wait", "wr_admit", "wr_unlock"}

\* thread t is inside my_rwlock_rdlock, counted in waiting_readers or just
\* admitted
InRdlock(t) == pc[t] \in {"rd_test", "rd_wait", "rd_admit", "rd_unlock"}

\* C5: under fair scheduling with every holder unlocking and finitely many
\* acquisitions, the writers waiting in my_rwlock_wrlock are all admitted
\* (whenever some thread is inside my_rwlock_wrlock, a moment follows at
\* which none is: each has returned holding the lock), and no reader is
\* admitted while a writer is waiting, so none whose call began after the
\* writer started waiting overtakes it.
C5_WriterNotStarved ==
    /\ (\E w \in Threads : InWrlock(w)) ~> (\A w \in Threads : ~InWrlock(w))
    /\ [][\A r \in Threads :
             ReaderAdmitted(r) => \A w \in Threads : pc[w] # "wr_wait"]_vars

\* C5 witness: a writer is parked behind an admitted reader and a later
\* reader is parked behind the writer.
C5_Witness ==
    /\ active_readers > 0
    /\ writers_cv # {}
    /\ readers_cv # {}

\* what my_rwlock_unlock does to the condition variables
SignalsOneWriter ==
    /\ readers_cv' = readers_cv
    /\ IF writers_cv = {} THEN writers_cv' = {}
       ELSE \E w \in writers_cv : writers_cv' = writers_cv \ {w}

BroadcastsReaders == readers_cv' = {} /\ writers_cv' = writers_cv

NoWake == readers_cv' = readers_cv /\ writers_cv' = writers_cv

WakePolicy ==
    IF waiting_writers > 0 THEN SignalsOneWriter
    ELSE IF waiting_readers > 0 THEN BroadcastsReaders
    ELSE NoWake

\* C6 as stated: after every my_rwlock_unlock, one writer is signalled if
\* waiting_writers > 0, else all readers are woken if waiting_readers > 0,
\* else nothing is woken.
C6_WakeAfterEveryUnlock ==
    [][\A t \in Threads : Released(t) => WakePolicy]_vars

\* C6 amended: that policy applies to every release that leaves the lock
\* free (a writer's, or the last reader's); a reader's release that leaves
\* active_readers > 0 wakes nobody.
C6_WakeWhenFree ==
    [][\A t \in Threads :
          Released(t) =>
             IF writer_active' = 0 /\ active_readers' = 0
             THEN WakePolicy
             ELSE NoWake]_vars

\* C6 witness: a release has just signalled one of two parked writers.
C6_Witness ==
    \E t, w \in Threads :
        /\ pc[t] = "un_unlock"
        /\ waiting_writers > 1
        /\ pc[w] = "wr_wait" /\ w \notin writers_cv
        /\ writers_cv # {}

\* no thread is running inside a lock function or holding the lock, and no
\* unblocked thread is on its way back from pthread_cond_wait
Quiet == \A t \in Threads : pc[t] = "idle" \/ t \in Parked

\* C7: under fair scheduling with every holder unlocking and finitely many
\* acquisitions, every thread blocked in my_rwlock_rdlock or
\* my_rwlock_wrlock returns (whenever some thread is inside an acquire, a
\* moment follows at which none is); and the lock is never free with a
\* thread parked while nothing is running that could wake it.
C7_NoLostWakeup ==
    /\ (\E t \in Threads : InRdlock(t) \/ InWrlock(t))
          ~> (\A t \in Threads : ~InRdlock(t) /\ ~InWrlock(t))
    /\ [](Inited =>
            ~(active_readers = 0 /\ writer_active = 0 /\ Parked # {} /\ Quiet))

\* C7 witness: the lock has just been released with a reader parked, and the
\* reader has been unblocked.
C7_Witness ==
    \E t, r \in Threads :
        /\ pc[t] = "un_unlock"
        /\ active_readers = 0 /\ writer_active = 0
        /\ pc[r] = "rd_wait" /\ r \notin readers_cv

\* a call of one of the five lock functions with a null handle
NullHandleStep ==
    \/ NullCall
    \/ \E rcm, rcr, rcw \in PrimErr \cup {0} : my_rwlock_init("NULL", rcm, rcr, rcw)
    \/ my_rwlock_destroy("NULL")

\* C8: my_rwlock_init, _destroy, _rdlock, _wrlock and _unlock called with a
\* null handle return EINVAL, change no field of the lock and touch neither
\* the mutex nor a condition variable.
C8_NullHandle ==
    [][NullHandleStep =>
          /\ mret' = EINVAL
          /\ UNCHANGED <<lockVars, primVars, mpc, thrVars>>]_vars

\* C8 witness: EINVAL has been returned while a writer holds the lock and
\* other threads are parked.
C8_Witness ==
    /\ mret = EINVAL
    /\ writer_active = 1
    /\ Parked # {}

\* C9: a call of my_rwlock_rdlock, _wrlock or _unlock during which
\* pthread_mutex_lock, pthread_mutex_unlock or pthread_cond_wait reported a
\* failure returns that failure code.
C9_FailurePropagated ==
    \A t \in Threads :
        (pc[t] \in {"idle", "locked"} /\ primFail[t] # 0) => ret[t] = primFail[t]

\* the first failure among the three initialisations
FirstFailure(rcm, rcr, rcw) ==
    IF rcm # 0 THEN rcm ELSE IF rcr # 0 THEN rcr ELSE rcw

\* C10: a successful my_rwlock_init returns 0 and leaves the four counters
\* zero; when initialising the mutex or a condition variable fails it
\* returns that failure code and does not report success.
C10_Init ==
    [][\A rcm, rcr, rcw \in PrimErr \cup {0} :
          my_rwlock_init("rwlock", rcm, rcr, rcw) =>
             IF rcm = 0 /\ rcr = 0 /\ rcw = 0
             THEN /\ mret' = 0
                  /\ active_readers' = 0 /\ waiting_readers' = 0
                  /\ waiting_writers' = 0 /\ writer_active' = 0
             ELSE /\ mret' = FirstFailure(rcm, rcr, rcw)
                  /\ mret' # 0
                  /\ mpc' # "run"]_vars

\* C10 witness: my_rwlock_init has just returned 0 and no worker has started.
C10_Witness ==
    /\ mpc = "run" /\ mret = 0
    /\ active_readers = 0 /\ waiting_readers = 0
    /\ waiting_writers = 0 /\ writer_active = 0
    /\ \A t \in Threads : pc[t] = "idle" /\ i[t] = 0

\* thread t has incremented waiting_writers and has not acquired the lock
WriterPending(t) == pc[t] \in {"wr_test", "wr_wait", "wr_admit"}

\* C18: from the moment a writer has incremented waiting_writers and is
\* blocked until a writer acquires the lock, active_readers never increases:
\* no step taken while a writer is counted in waiting_writers and has not
\* acquired raises active_readers, so the writer waits only for the readers
\* admitted before it.
C18_BoundedOvertaking ==
    [][(\E w \in Threads : WriterPending(w))
          => active_readers' <= active_readers]_vars

\* C18 witness: a writer is blocked behind a reader that holds the lock, and
\* a reader that called after it has found the writer waiting.
C18_Witness ==
    \E w, r, q \in Threads :
        /\ pc[w] = "wr_wait"
        /\ held[r] = "read" /\ pc[r] = "locked"
        /\ pc[q] = "rd_test"
        /\ waiting_writers = 1 /\ active_readers = 1

\* C19: when a thread that holds the read lock runs the body of
\* my_rwlock_unlock, writer_active is false, active_readers goes down by one
\* and writer_active stays; when the thread that holds the write lock runs
\* it, writer_active is true and is cleared, and active_readers stays.
C19_RoleInference ==
    [][\A t \in Threads :
          Released(t) =>
             IF held[t] = "read"
             THEN /\ writer_active = 0
                  /\ active_readers' = active_readers - 1
                  /\ writer_active' = writer_active
             ELSE /\ held[t] = "write"
                  /\ writer_active # 0
                  /\ writer_active' = 0
                  /\ active_readers' = active_readers]_vars

\* C19 witness: the thread that holds the write lock has run the body of
\* my_rwlock_unlock while a reader is waiting.
C19_Witness ==
    \E t \in Threads :
        /\ pc[t] = "un_unlock" /\ held[t] = "write"
        /\ writer_active = 0
        /\ waiting_readers > 0

\* number of workers for which P holds
Count(P(_)) == Cardinality({t \in Threads : P(t)})

HoldsRead(t) == held[t] = "read"
HoldsWrite(t) == held[t] = "write"
BlockedInRdlock(t) == pc[t] = "rd_wait"
BlockedInWrlock(t) == pc[t] = "wr_wait"

\* C20: whenever the initialised lock's mutex is not held, active_readers is
\* the number of threads holding the read lock, writer_active is set iff
\* exactly one thread holds the write lock (and no more than one ever does),
\* waiting_readers is the number of threads blocked in my_rwlock_rdlock and
\* waiting_writers the number blocked in my_rwlock_wrlock.
C20_Bookkeeping ==
    (Inited /\ mutex = NoThread) =>
        /\ active_readers = Count(HoldsRead)
        /\ active_readers >= 0
        /\ Count(HoldsWrite) <= 1
        /\ (writer_active # 0) <=> (Count(HoldsWrite) = 1)
        /\ waiting_readers = Count(BlockedInRdlock)
        /\ waiting_writers = Count(BlockedInWrlock)

\* C20 witness: the mutex is free while one thread holds the write lock,
\* a writer is blocked behind it and a reader behind both.
C20_Witness ==
    /\ mutex = NoThread
    /\ Count(HoldsWrite) = 1
    /\ Count(BlockedInWrlock) = 1
    /\ Count(BlockedInRdlock) = 1

(* ------------------------------------------------ claims about the list *)
\* the nodes reached from c
RECURSIVE Nodes(_, _)
Nodes(c, fuel) ==
    IF c = NULL \/ fuel = 0 THEN {}
    ELSE {c} \cup Nodes(next[c], fuel - 1)

Elems(s) == {s[j] : j \in 1..Len(s)}
Ascending(s) == \A j \in 1..(Len(s) - 1) : s[j] < s[j + 1]

\* head leads through allocated nodes to NULL
IsList ==
    /\ Nodes(head, Cardinality(Addr) + 1) \subseteq alloc
    /\ Len(ListOf) <= Cardinality(Addr)

\* worker t is between the return of its write-lock call and the return of
\* its Insert or Delete
WriterInside(t) == wpc[t] \in {"cs", "link"} /\ op[t] \in {"insert", "delete"}

\* C11: while the process runs and no writer is inside its critical
\* section, the shared list is a list whose keys are strictly ascending (so
\* no key occurs twice), whatever Insert and Delete operations the workers
\* have executed under the write lock.
C11_SortedUnique ==
    (hpc # "exited" /\ \A t \in Threads : ~WriterInside(t))
        => IsList /\ Ascending(ListOf)

\* C11 witness: two workers have completed an Insert or Delete each and the
\* list holds two keys.
C11_Witness ==
    /\ hpc = "join"
    /\ insert_count + delete_count = 2
    /\ thread_count = 2
    /\ Len(ListOf) = 2

\* what Insert(key) returning r does to a sorted list
InsertSpec(key, r) ==
    IF key \in Elems(ListOf)
    THEN /\ r = 0
         /\ ListOf' = ListOf
    ELSE /\ r = 1
         /\ Len(ListOf') = Len(ListOf) + 1
         /\ Elems(ListOf') = Elems(ListOf) \cup {key}
         /\ Ascending(ListOf')

\* C12: Insert(key) on a sorted duplicate-free list returns 0 and leaves the
\* list as it is when the key is present; when it is absent Insert returns 1
\* and the list gains that key and no other, at its sorted position.  This
\* holds for Insert called by main and for Insert run by a worker.
C12_InsertIdempotent ==
    /\ [][\A key \in Keys, r \in {0, 1} :
             Insert(key, r) => InsertSpec(key, r)]_vars
    /\ [][\A t \in Threads :
             (wpc[t] = "link" /\ op[t] = "insert" /\ wpc'[t] = "unlock")
                => InsertSpec(val[t], rv'[t])]_vars

\* C12 witness: a worker's Insert of a key that the list of two keys holds
\* has returned 0.
C12_Witness ==
    \E t \in Threads :
        /\ wpc[t] = "unlock" /\ op[t] = "insert" /\ rv[t] = 0
        /\ val[t] \in Elems(ListOf)
        /\ Len(ListOf) = 2

\* the operations the workers have completed and not yet merged
Unmerged(t) == my_member_count[t] + my_insert_count[t] + my_delete_count[t]

RECURSIVE SumOver(_, _)
SumOver(f, S) ==
    IF S = {} THEN 0
    ELSE LET t == CHOOSE u \in S : TRUE IN f[t] + SumOver(f, S \ {t})

\* C14: once the workers are joined, member_count + insert_count +
\* delete_count is thread_count * (total_ops / thread_count), which is
\* total_ops when thread_count divides total_ops; and at any moment the
\* global counters and the local counters not yet merged add up to the
\* iterations completed: no local count is lost or added twice.
C14_CounterConservation ==
    /\ hpc = "report"
          => /\ member_count + insert_count + delete_count
                   = thread_count * (total_ops \div thread_count)
             /\ (total_ops % thread_count = 0
                   => member_count + insert_count + delete_count = total_ops)
    /\ Running
          => member_count + insert_count + delete_count
                + SumOver([t \in Threads |-> Unmerged(t)], Threads)
                = SumOver(i, Threads)

\* C14 witness: two workers are joined after a run of three operations in
\* total, of which each worker executed one.
C14_Witness ==
    /\ hpc = "report"
    /\ thread_count = 2 /\ total_ops = 3
    /\ member_count + insert_count + delete_count = 2

SearchOnly == search_percent = Scale /\ insert_percent = 0

\* C15: in a run with search_percent = 1.0 and insert_percent = 0.0 no step
\* of a worker changes the list, so that the list after the run is the
\* pre-populated one; and once the workers are joined member_count is the
\* number of operations executed and insert_count = delete_count = 0.
C15_SearchOnly ==
    /\ [][(SearchOnly /\ Running) => UNCHANGED listVars]_vars
    /\ []((SearchOnly /\ hpc = "report")
            => /\ member_count = thread_count * ops_per_thread
               /\ insert_count = 0
               /\ delete_count = 0)

\* C15 witness: two workers are joined after a search-only run on a list of
\* two keys, each having executed one search.
C15_Witness ==
    /\ SearchOnly
    /\ hpc = "report"
    /\ thread_count = 2
    /\ member_count = 2
    /\ Len(ListOf) = 2

\* C17: started with a wrong number of arguments, main writes the usage line
\* to stderr and exits with a non-zero status, having started no worker and
\* inserted nothing.
C17_UsageExit ==
    (argc # 2 /\ hpc = "exited")
        => /\ usage
           /\ exit_status # 0
           /\ \A t \in Threads : wpc[t] = "off"
           /\ head = NULL /\ alloc = {}

\* the run of C13: two workers, one operation each, inserts only, the same
\* key, the list empty when they start
TwoInserts ==
    /\ harness = "custom"
    /\ thread_count = 2
    /\ total_ops \div thread_count = 1
    /\ search_percent = 0 /\ insert_percent = Scale
    /\ inserts_in_main = 0

\* worker u has returned from its Insert
Inserted(u) == i[u] > 0 \/ wpc[u] \in {"unlock", "unlocking"}

\* C13: when two workers each run my_rwlock_wrlock; Insert(k);
\* my_rwlock_unlock on an empty list, in every interleaving the Insert that
\* returns first returns 1 and the other returns 0, so exactly one
\* succeeds, and once both are joined the list is <<k>>.
C13_ConcurrentInsert ==
    /\ [][TwoInserts =>
            \A t \in Threads :
               (wpc[t] = "link" /\ wpc'[t] = "unlock")
                  => rv'[t] = IF \E u \in Threads \ {t} : Inserted(u)
                              THEN 0 ELSE 1]_vars
    /\ []((TwoInserts /\ hpc = "report")
            => ListOf = <<MaxKey>> /\ insert_count = 2)

\* C13 witness: the second Insert has returned 0 after the first worker has
\* returned from Thread_work, and the list is <<k>>.
C13_Witness ==
    \E t, u \in Threads :
        /\ TwoInserts
        /\ t # u
        /\ wpc[t] = "unlock" /\ rv[t] = 0
        /\ wpc[u] = "done"
        /\ ListOf = <<MaxKey>>

\* C16: with one worker, no call of my_rwlock_rdlock or my_rwlock_wrlock
\* ever waits, and the run agrees with the run of the same operations
\* without the lock: each operation returns the same value, the list is the
\* same after each operation and at the end, and so are the counters.
C16_SingleThread ==
    (harness = "custom" /\ thread_count = 1) =>
        /\ \A t \in Threads : pc[t] \notin {"rd_wait", "wr_wait"}
        /\ readers_cv = {} /\ writers_cv = {}
        /\ \A t \in Threads :
              /\ wpc[t] \in {"unlock", "unlocking"}
                    => rv[t] = ref[2] /\ ListOf = ref[1]
              /\ wpc[t] \in {"loop", "merge", "store"}
                    => /\ ListOf = ref[1]
                       /\ <<my_member_count[t], my_insert_count[t],
                            my_delete_count[t]>> = <<ref[3], ref[4], ref[5]>>
        /\ hpc = "report"
              => /\ ListOf = ref[1]
                 /\ <<member_count, insert_count, delete_count>>
                       = <<ref[3], ref[4], ref[5]>>

\* C16 witness: the single worker is joined after three operations, one of
\* each kind.
C16_Witness ==
    /\ harness = "custom" /\ thread_count = 1
    /\ hpc = "report"
    /\ member_count = 1 /\ insert_count = 1 /\ delete_count = 1

(* ------------------------------------------- claims about the lock, cont. *)
\* C27: a reader's my_rwlock_unlock that leaves active_readers > 0 wakes
\* nobody and changes no lock field but active_readers, which it decrements;
\* a reader's release that wakes somebody is the one that brings
\* active_readers to 0.
C27_SilentRelease ==
    [][\A t \in Threads :
          (Released(t) /\ writer_active = 0) =>
             /\ active_readers' = active_readers - 1
             /\ UNCHANGED <<waiting_readers, waiting_writers, writer_active>>
             /\ (active_readers' > 0 => NoWake)
             /\ (~NoWake => active_readers' = 0)]_vars

\* C27 witness: a reader has just run the body of my_rwlock_unlock, another
\* reader still holds the lock and a writer is still parked.
C27_Witness ==
    \E t \in Threads :
        /\ pc[t] = "un_unlock" /\ held[t] = "read"
        /\ active_readers > 0 /\ writer_active = 0
        /\ writers_cv # {}

\* C28: when my_rwlock_init fails at a pthread_cond_init (the mutex having
\* been initialised), it returns a failure code leaving none of the three
\* primitives initialised and the four counters as they were.
C28_InitCleanup ==
    [][\A rcr, rcw \in PrimErr \cup {0} :
          (my_rwlock_init("rwlock", 0, rcr, rcw) /\ (rcr # 0 \/ rcw # 0)) =>
             /\ inited' = {}
             /\ mret' = (IF rcr # 0 THEN rcr ELSE rcw)
             /\ UNCHANGED lockVars]_vars

\* C28 witness: my_rwlock_init has failed, nothing is initialised and the
\* counters still hold what the memory held before the call.
C28_Witness ==
    /\ mpc = "init_failed" /\ mret \in PrimErr
    /\ inited = {}
    /\ active_readers = 1 /\ waiting_readers = 1
    /\ waiting_writers = 1 /\ writer_active = 1

(* ------------------------------------------- claims about the list, cont. *)
\* worker t is at pthread_mutex_lock(&count_mutex)
AtCountMutex(t) == wpc[t] = "loop" /\ ~(i[t] < ops_per_thread)

\* worker t is at pthread_rwlock_rdlock or pthread_rwlock_wrlock
AtRwlock(t) == wpc[t] = "loop" /\ i[t] < ops_per_thread

\* C21: a worker that holds count_mutex or is waiting for it neither holds
\* the lock of the list nor waits for it; it has completed its
\* ops_per_thread iterations, and it holds count_mutex only while it adds
\* its three counters.
C21_LockIndependence ==
    \A t \in Threads :
        /\ (count_mutex = t \/ AtCountMutex(t))
              => held[t] = "none" /\ ~AtRwlock(t)
        /\ count_mutex = t
              => i[t] = ops_per_thread /\ wpc[t] \in {"merge", "store"}
        /\ held[t] # "none" => wpc[t] \in {"cs", "link", "unlock"}

\* C21 witness: a worker that has operated on the list is adding its
\* counters under count_mutex while another worker holds the lock of the
\* list.
C21_Witness ==
    \E t, u \in Threads :
        /\ t # u
        /\ count_mutex = t /\ wpc[t] = "store" /\ i[t] > 0
        /\ held[u] # "none"

\* what Delete(key) returning r does to a sorted list
DeleteSpec(key, r) ==
    IF key \in Elems(ListOf)
    THEN /\ r = 1
         /\ ListOf' = SelectSeq(ListOf, LAMBDA x : x # key)
         /\ Len(ListOf') = Len(ListOf) - 1
         /\ Cardinality(alloc') = Cardinality(alloc) - 1
    ELSE /\ r = 0
         /\ ListOf' = ListOf
         /\ UNCHANGED listVars

\* C22: Delete(key) on a sorted duplicate-free list returns 1 and removes
\* the node that holds key, the other keys staying in their order, when
\* the key is present; when it is absent Delete returns 0 and leaves the
\* list as it is.
C22_Delete ==
    [][\A t \in Threads :
          (wpc[t] = "link" /\ op[t] = "delete" /\ wpc'[t] = "unlock")
             => DeleteSpec(val[t], rv'[t])]_vars

\* C22 witness: a worker's Delete has removed the first of two keys.
C22_Witness ==
    \E t \in Threads :
        /\ wpc[t] = "unlock" /\ op[t] = "delete"
        /\ val[t] = 1 /\ rv[t] = 1
        /\ inserts_in_main = MaxKey
        /\ ListOf = [j \in 1..(MaxKey - 1) |-> j + 1]

\* the addresses of the nodes of the list, from c on
RECURSIVE NodeSeq(_, _)
NodeSeq(c, fuel) ==
    IF c = NULL \/ fuel = 0 THEN <<>>
    ELSE <<c>> \o NodeSeq(next[c], fuel - 1)

\* the first node of the list whose key is at least k, NULL if there is none
FirstAtLeast(k) ==
    LET ns == NodeSeq(head, Cardinality(Addr) + 1)
        js == {j \in 1..Len(ns) : data[ns[j]] >= k}
    IN  IF js = {} THEN NULL
        ELSE ns[CHOOSE j \in js : \A l \in js : j <= l]

\* C23: Member(key) on a sorted duplicate-free list returns 1 exactly when
\* the key is in the list; its loop stops at the first node whose key is at
\* least key; and it changes neither the list nor who holds the lock.
C23_Member ==
    [][\A t \in Threads :
          (wpc[t] = "cs" /\ op[t] = "member" /\ wpc'[t] = "unlock")
             => /\ rv'[t] = (IF val[t] \in Elems(ListOf) THEN 1 ELSE 0)
                /\ Traverse(val[t])[2] = FirstAtLeast(val[t])
                /\ UNCHANGED <<listVars, held>>]_vars

\* C23 witness: a worker's Member has found the last key of a full list,
\* having passed the nodes before it.
C23_Witness ==
    \E t \in Threads :
        /\ wpc[t] = "unlock" /\ op[t] = "member"
        /\ val[t] = MaxKey /\ rv[t] = 1
        /\ Len(ListOf) = MaxKey

\* main is in its pre-population loop or has just left it
Populating == hpc \in {"populate", "setup"}

\* C24: the pre-population loop makes at most 2 * inserts_in_main calls of
\* Insert and inserts at most inserts_in_main keys, makes no call once
\* inserts_in_main keys are inserted, and no worker exists before it has
\* ended.
C24_Prepopulation ==
    /\ [](Populating =>
            /\ attempts <= 2 * inserts_in_main
            /\ main_i <= inserts_in_main
            /\ main_i <= attempts
            /\ Len(ListOf) = main_i)
    /\ []((hpc \in {"start", "input"} \/ Populating)
            => \A t \in Threads : wpc[t] = "off")
    /\ [][(hpc = "populate" /\ attempts' # attempts) =>
             /\ main_i < inserts_in_main
             /\ attempts' = attempts + 1
             /\ hpc' = "populate"]_vars
    /\ [][(hpc = "populate" /\ hpc' # "populate") =>
             /\ main_i = inserts_in_main \/ attempts = 2 * inserts_in_main
             /\ UNCHANGED listVars]_vars

\* C24 witness: the loop has ended after 2 * inserts_in_main attempts with
\* fewer than inserts_in_main keys inserted.
C24_Witness ==
    /\ hpc = "setup"
    /\ inserts_in_main = MaxKey
    /\ attempts = 2 * inserts_in_main
    /\ main_i < inserts_in_main /\ main_i > 0

\* C26: a step in which malloc fails ends the process in an orderly way,
\* a message printed and the exit status not zero, the list as it was (the
\* program has one message on stderr, the usage line).
C26_AllocFailure ==
    [][AllocFails =>
          /\ hpc' = "exited"
          /\ usage'
          /\ exit_status' # 0
          /\ UNCHANGED listVars]_vars

\* the workers main has created
Created == 1..thread_count

\* C25: under fair scheduling, once main creates the workers its join of
\* all of them completes; by then every worker has run its ops_per_thread
\* iterations, merged its counters and returned, and none is inside a lock
\* function, parked on a condition variable or holding count_mutex.
C25_Termination ==
    /\ (hpc = "create") ~> (hpc = "report")
    /\ [](hpc = "report" =>
            /\ \A t \in Created :
                  /\ wpc[t] = "done" /\ i[t] = ops_per_thread
                  /\ pc[t] = "idle" /\ held[t] = "none"
            /\ Parked = {}
            /\ mutex = NoThread /\ count_mutex = NoThread
            /\ member_count + insert_count + delete_count
                  = thread_count * ops_per_thread)

\* C25 witness: main has joined two workers, each of which has run an
\* iteration under the write lock.
C25_Witness ==
    /\ harness = "custom"
    /\ hpc = "report" /\ thread_count = 2
    /\ insert_count = 2
    /\ \A t \in Created : wpc[t] = "done" /\ i[t] = 1

(* ---------------------------------------------- claims about the sampler *)
\* C29: in the sampling loop every write to points[] goes to an index in
\* 0..npoints-1 and every cell is written at most once; the threads that
\* hold an index hold different ones; and a thread whose index is npoints
\* or more writes nothing and leaves the loop.
C29_CollectorBounds ==
    /\ [](hpc = "parallel" =>
            /\ \A j \in DOMAIN points :
                  points[j] <= 1 /\ (j >= npoints => points[j] = 0)
            /\ \A t, u \in Team :
                  (t # u /\ opc[t] = "store" /\ opc[u] = "store")
                     => current_index[t] # current_index[u]
            /\ \A t \in Team :
                  opc[t] = "store" =>
                     current_index[t] >= 0 /\ points[current_index[t]] = 0)
    /\ [][\A t \in Team :
             (hpc = "parallel" /\ opc[t] = "store" /\ opc'[t] # "store"
                /\ current_index[t] >= npoints)
                => opc'[t] = "done" /\ points' = points]_vars

\* C29 witness: every cell has been written, two threads have left the loop
\* with an index past the end and the third at the test of count.
C29_Witness ==
    /\ harness = "mandelbrot" /\ hpc = "parallel"
    /\ nthreads = NumThreads /\ npoints = MaxPoints
    /\ \A j \in 0..(npoints - 1) : points[j] = 1
    /\ count = npoints + 2
    /\ \A t \in Team : opc[t] = "done"

====
